---- MODULE Spec2Model ----
(***************************************************************************)
(* Model of the aoya-pottery admin route (app/routes/upload.tsx) and the   *)
(* gallery loader (app/routes/home.tsx): the upload, delete and reorder    *)
(* requests handled by `action`, the Metadata Store (table `files`), the   *)
(* Object Store (bucket `aoya-pottery`) and the admin page's loaded list.  *)
(* Every `await` of a handler is one atomic step: the remote call takes    *)
(* effect and the handler runs on to its next await or to its return.      *)
(* File names are sequences of one-character strings.                      *)
(***************************************************************************)
EXTENDS Integers, Sequences, FiniteSets, TLC

\* ------------------------------------------------------------------ bounds

\* Number of requests the hosting platform handles at the same time.
MaxReq == 2

\* Number of requests sent to `action` in a run.
MaxServed == 3

\* Last millisecond of the clock.
MaxClock == 2

\* --------------------------------------------------------------- constants

\* const maxFileSize = 50 * 1024 * 1024
maxFileSize == 52428800

\* COALESCE(display_order, 999999)
Sentinel == 999999

\* SQL NULL in the display_order column (no rank is negative).
NULL == -1

Requests == 1..MaxReq

\* ------------------------------------------------------------- file names

DOT == "."

JPG == <<".", "j", "p", "g">>

DigitChars == <<"0", "1", "2", "3", "4", "5", "6", "7", "8", "9">>

\* `${timestamp}`: the decimal digits of a non-negative integer.
RECURSIVE Digits(_)
Digits(n) ==
  IF n < 10 THEN <<DigitChars[n + 1]>>
  ELSE Digits(n \div 10) \o <<DigitChars[(n % 10) + 1]>>

\* originalName.lastIndexOf("."): 0-based index of the last dot, -1 if none.
LastIndexOf(s, c) ==
  LET hits == {i \in 1..Len(s) : s[i] = c}
  IN IF hits = {} THEN -1
     ELSE (CHOOSE i \in hits : \A j \in hits : j <= i) - 1

\* lastDotIndex > 0 ? originalName.substring(0, lastDotIndex) : originalName
NameWithoutExt(originalName) ==
  LET lastDotIndex == LastIndexOf(originalName, DOT)
  IN IF lastDotIndex > 0 THEN SubSeq(originalName, 1, lastDotIndex)
     ELSE originalName

\* `${nameWithoutExt}.jpg`
DerivedName(originalName) == NameWithoutExt(originalName) \o JPG

\* `${nameWithoutExt}-${timestamp}.jpg`
TimestampName(originalName, timestamp) ==
  NameWithoutExt(originalName) \o <<"-">> \o Digits(timestamp) \o JPG

\* StoredFilename without the collision check.
StoredFilenameNoCheck(originalName, existingFilenames, now) ==
  DerivedName(originalName)

\* The filename an upload stores under, given the set read from the table
\* and the value of Date.now().
StoredFilename(originalName, existingFilenames, now) ==
  IF DerivedName(originalName) \in existingFilenames
  THEN TimestampName(originalName, now)
  ELSE DerivedName(originalName)

\* `https://asset.aoya-pottery.com/${filename}`
Url(filename) == <<"https://asset.aoya-pottery.com/">> \o filename

EndsWith(s, suffix) ==
  /\ Len(s) >= Len(suffix)
  /\ SubSeq(s, Len(s) - Len(suffix) + 1, Len(s)) = suffix

\* ------------------------------------------------------------------ inputs

\* Files the admin can select: a.png, a.jpg, a-1.png (a name that already
\* carries a timestamp suffix, such as a re-uploaded gallery image) and a
\* name without extension.
FileNames ==
  { <<"a", ".", "p", "n", "g">>,
    <<"a", ".", "j", "p", "g">>,
    <<"a", "-", "1", ".", "p", "n", "g">> }

\* File sizes in bytes: 8MB and one byte over the ceiling.
FileSizes == {8388608, maxFileSize + 1}

\* Length in bytes of the JPEG the transcoder makes of a file of the given
\* size (the encoder is deterministic; the ratio is an example).
JpegLength(size) == size \div 8

NoFile == [present |-> FALSE, name |-> <<>>, size |-> 0, width |-> 0, height |-> 0]

\* The files of the request specifications are 4000 x 3000 pictures.
Files ==
  [present : {TRUE}, name : FileNames, size : FileSizes,
   width : {4000}, height : {3000}] \cup {NoFile}

\* Pictures of every size tier (1MB, 11MB, 21MB), narrower and wider than
\* the tier's maximum width. 3840 x 1923 at 1MB and 1920 x 1923 at 21MB
\* have a proportional height that is an exact half (961.5 and 1602.5).
ImageSizes == {1048576, 11534336, 22020096}

ImageWidths == {1600, 1920, 3840, 4001, 5001}

ImageHeights == {1082, 1923, 4004, 5002}

ImageFiles ==
  [present : {TRUE}, name : {<<"a", ".", "p", "n", "g">>}, size : ImageSizes,
   width : ImageWidths, height : ImageHeights]

\* Values of the form field `intent` other than the three handled ones.
OtherIntents == {"", "rename"}

\* ------------------------------------------------------------------- state

VARIABLES
  rows,          \* Metadata Store: the rows of table `files`
  hasColumn,     \* whether table `files` has the display_order column
  objects,       \* Object Store: object key -> body
  clock,         \* Date.now(), in milliseconds
  nextId,        \* number of identifiers crypto.randomUUID() has produced
  req,           \* the requests being handled by `action`, one per slot
  served,        \* number of requests `action` has been called with
  response,      \* the response `action` returned last
  listed,        \* the (id, filename) pairs an admin page has listed
  heap,          \* the decoded images that are allocated and not freed
  loaderData,    \* what the loader returned last
  uploadStatuses, \* the admin page's status of each file of the batch
  selectedFiles, \* the admin page's selection
  reload,        \* how far handleSubmit is towards the page reload
  freedTwice,    \* the decoded images free() was called on after their free
  posted         \* the order lists of the concurrent reorder requests

vars ==
  <<rows, hasColumn, objects, clock, nextId, req, served, response, listed,
    heap, loaderData, uploadStatuses, selectedFiles, reload, freedTwice,
    posted>>

\* let inputImage: any = null
NoImage == "null"

\* A slot with no request.
Idle ==
  [ kind |-> "none", pc |-> "idle", file |-> NoFile, fileId |-> 0,
    filename |-> <<>>, order |-> <<>>, existingFilenames |-> {},
    optimizedLen |-> 0, width |-> 0, height |-> 0,
    maxWidth |-> 0, quality |-> 0,
    inputImage |-> NoImage, outputImage |-> NoImage,
    newOrder |-> 0, maxOrderRead |-> FALSE, before |-> {},
    keysBefore |-> {}, k |-> 0 ]

\* No response yet.
NoResponse ==
  [ kind |-> "none", status |-> 0, success |-> FALSE, error |-> "none",
    message |-> "", memory |-> FALSE ]

\* The loader has not run yet.
NoData == [files |-> <<>>, query |-> "none"]

InFlight(r) == req[r].kind # "none"

NoneInFlight == \A r \in Requests : ~InFlight(r)

\* response.ok
ResponseOk(status) == status \in 200..299

\* Settle that shows success whatever the response.
SettleAlwaysSuccess(statuses, r, kind, status) ==
  IF kind = "upload" /\ r \in DOMAIN statuses /\ statuses[r].status = "uploading"
  THEN [statuses EXCEPT ![r].status = "success"]
  ELSE statuses

\* The fetch of batch item r is handled in slot r; when it resolves, the
\* item's status becomes success or error after response.ok.
Settle(statuses, r, kind, status) ==
  IF kind = "upload" /\ r \in DOMAIN statuses /\ statuses[r].status = "uploading"
  THEN [statuses EXCEPT ![r].status =
          IF ResponseOk(status) THEN "success" ELSE "error"]
  ELSE statuses

\* error.message of the error the named call threw.
ErrorMessage(error) == "thrown by " \o error

\* The message of each return statement of `action`; `error` names the
\* check or call that failed.
Message(kind, status, error) ==
  CASE kind = "reorder" ->
         IF error = "noorder" THEN "No order data provided"
         ELSE IF error = "none" THEN "Order updated successfully"
         ELSE "Failed to update order"
    [] kind = "delete" ->
         IF error = "none" THEN "File deleted successfully"
         ELSE "Failed to delete file"
    [] kind = "upload" ->
         IF error = "nofile" THEN "No file provided"
         ELSE IF error = "toolarge"
         THEN "File size exceeds 50MB limit. Please use a smaller image."
         ELSE IF error = "none" THEN "File uploaded successfully"
         ELSE IF status = 413
         THEN "File is too large or complex. Please try reducing the image dimensions or use a smaller file."
         ELSE ErrorMessage(error)
    [] OTHER -> "Invalid action"

\* The handler of slot r returns and the slot is free again; `memory`
\* tells whether the message of the error it caught mentions memory.
Return(r, kind, success, status, error, memory) ==
  /\ response' = [ kind |-> kind, status |-> status, success |-> success,
                   error |-> error, message |-> Message(kind, status, error),
                   memory |-> memory ]
  /\ req' = [req EXCEPT ![r] = Idle]
  /\ uploadStatuses' = Settle(uploadStatuses, r, kind, status)

\* jsonResponse(data, status)
JsonResponse(r, kind, success, status, error) ==
  Return(r, kind, success, status, error, FALSE)

\* An upload catch block without the memory check.
UploadCatchAlways500(r, error, mentionsMemory) ==
  Return(r, "upload", FALSE, 500, error, mentionsMemory)

\* The catch block of the upload branch: 413 when the message mentions
\* memory, 500 otherwise.
UploadCatch(r, error, mentionsMemory) ==
  Return(r, "upload", FALSE, IF mentionsMemory THEN 413 ELSE 500, error,
         mentionsMemory)

\* Schema of part_000: no row and no display_order column.
Init ==
  /\ rows = {}
  /\ hasColumn = FALSE
  /\ objects = << >>
  /\ clock = 1
  /\ nextId = 0
  /\ req = [r \in Requests |-> Idle]
  /\ served = 0
  /\ response = NoResponse
  /\ listed = {}
  /\ heap = {}
  /\ loaderData = NoData
  /\ uploadStatuses = << >>
  /\ selectedFiles = << >>
  /\ reload = "none"
  /\ freedTwice = {}
  /\ posted = << >>

\* PutObject that writes nothing.
PutObjectNoWrite(store, key, body) == store

\* PutObjectCommand on the bucket.
PutObject(store, key, body) ==
  [k \in DOMAIN store \cup {key} |-> IF k = key THEN body ELSE store[k]]

\* DeleteObject that leaves the object in place.
DeleteObjectKeepsKey(store, key) == store

\* DeleteObjectCommand on the bucket.
DeleteObject(store, key) ==
  [k \in DOMAIN store \ {key} |-> store[k]]

\* SELECT MAX(display_order) FROM files: NULL when no row has a rank.
MaxOrder(table) ==
  LET ranks == {row.display_order : row \in table} \ {NULL}
  IN IF ranks = {} THEN NULL
     ELSE CHOOSE m \in ranks : \A n \in ranks : n <= m

\* ALTER TABLE files ADD COLUMN display_order INTEGER, inside its own
\* try/catch: it fails when the column exists, and any failure is ignored.
AlterTable(ok) ==
  hasColumn' = (hasColumn \/ ok)

\* ----------------------------------------------------------------- upload

\* SubmitUpload without the size limit check.
SubmitUploadNoSizeCheck(r, file) ==
  /\ req[r].kind = "none"
  /\ IF ~file.present
     THEN JsonResponse(r, "upload", FALSE, 400, "nofile")
     ELSE /\ req' = [req EXCEPT ![r] =
               [Idle EXCEPT !.kind = "upload", !.pc = "select", !.file = file]]
          /\ UNCHANGED <<response, uploadStatuses>>
  /\ UNCHANGED <<rows, hasColumn, objects, clock,
                 nextId, listed, loaderData, heap, selectedFiles, reload,
                 freedTwice>>

\* intent=upload: the input checks before the try block.
SubmitUpload(r, file) ==
  /\ req[r].kind = "none"
  /\ IF ~file.present
     THEN JsonResponse(r, "upload", FALSE, 400, "nofile")
     ELSE IF file.size > maxFileSize
     THEN JsonResponse(r, "upload", FALSE, 400, "toolarge")
     ELSE /\ req' = [req EXCEPT ![r] =
               [Idle EXCEPT !.kind = "upload", !.pc = "select", !.file = file]]
          /\ UNCHANGED <<response, uploadStatuses>>
  /\ UNCHANGED <<rows, hasColumn, objects, clock,
                 nextId, listed, loaderData, heap, selectedFiles, reload,
                 freedTwice>>

\* SELECT filename FROM files (before the block that has the finally).
UploadSelect(r, ok, mentionsMemory) ==
  /\ req[r].kind = "upload" /\ req[r].pc = "select"
  /\ IF ok
     THEN /\ req' = [req EXCEPT ![r].pc = "process",
                                ![r].existingFilenames =
                                   {row.filename : row \in rows}]
          /\ UNCHANGED <<response, uploadStatuses>>
     ELSE UploadCatch(r, "select", mentionsMemory)
  /\ UNCHANGED <<rows, hasColumn, objects, clock, nextId, served, listed,
                 heap, loaderData, selectedFiles, reload, freedTwice, posted>>

\* fileSizeMB > n
LargerThanMB(size, n) == size > n * 1048576

\* Tier that looks at the file size only.
TierBySizeOnly(file) ==
  IF LargerThanMB(file.size, 20) THEN [maxWidth |-> 1600, quality |-> 70]
  ELSE IF LargerThanMB(file.size, 10) THEN [maxWidth |-> 1800, quality |-> 72]
  ELSE [maxWidth |-> 1920, quality |-> 75]

\* maxWidth and quality, after the file size and the source dimensions.
Tier(file) ==
  IF LargerThanMB(file.size, 20) \/ file.width > 5000 \/ file.height > 5000
  THEN [maxWidth |-> 1600, quality |-> 70]
  ELSE IF LargerThanMB(file.size, 10) \/ file.width > 4000 \/ file.height > 4000
  THEN [maxWidth |-> 1800, quality |-> 72]
  ELSE [maxWidth |-> 1920, quality |-> 75]

\* const needsResize = originalWidth > maxWidth
NeedsResize(file) == file.width > Tier(file).maxWidth

\* Rounding that always takes the lower neighbour.
RoundedDown(num, den) == {num \div den}

\* Math.round(maxWidth * (originalHeight / originalWidth)): the integer
\* nearest to num / den. The quotient and the product are rounded to
\* doubles, so when num / den is an exact half the product may fall just
\* below it: then the result is either neighbour.
Rounded(num, den) ==
  LET q == num \div den
      rest == num % den
  IN IF 2 * rest < den THEN {q}
     ELSE IF 2 * rest > den THEN {q + 1}
     ELSE {q, q + 1}

\* The values newHeight can take.
NewHeights(file) ==
  Rounded(Tier(file).maxWidth * file.height, file.width)

\* The calls of the image library that can throw.
ImageFaults(file, ok) ==
  IF ok THEN {"none"}
  ELSE {"decode", "encode"} \cup (IF NeedsResize(file) THEN {"resize"} ELSE {})

\* image.free(): the image is no longer allocated. Freeing an image that
\* was freed before leaves the heap as it is (whether the library ignores
\* the call or throws, the cleanup ignores the error).
Free(h, r, image) == h \ {<<r, image>>}

\* The inner try block up to the JPEG bytes: the local variables, the heap
\* and the dimensions of the encoded picture when the block is left, by
\* `thrown` or by running on to the filename.
ProcessImage(h, r, file, fault, newHeight) ==
  LET start == [ thrown |-> FALSE, inputImage |-> NoImage,
                 outputImage |-> NoImage, heap |-> h,
                 width |-> 0, height |-> 0, maxWidth |-> 0, quality |-> 0 ]
      decoded ==
        IF fault = "decode" THEN [start EXCEPT !.thrown = TRUE]
        ELSE [start EXCEPT !.inputImage = "decoded",
                           !.heap = h \cup {<<r, "decoded">>},
                           !.width = file.width, !.height = file.height,
                           !.maxWidth = Tier(file).maxWidth,
                           !.quality = Tier(file).quality]
      resized ==
        IF decoded.thrown \/ ~NeedsResize(file) THEN
          [decoded EXCEPT !.outputImage = decoded.inputImage]
        ELSE IF fault = "resize" THEN [decoded EXCEPT !.thrown = TRUE]
        ELSE [decoded EXCEPT
                !.outputImage = "resized",
                !.inputImage = NoImage,
                !.heap = Free(decoded.heap \cup {<<r, "resized">>}, r, "decoded"),
                !.width = Tier(file).maxWidth, !.height = newHeight]
  IN IF resized.thrown THEN resized
     ELSE IF fault = "encode" THEN [resized EXCEPT !.thrown = TRUE]
     ELSE [resized EXCEPT !.heap = Free(resized.heap, r, resized.outputImage),
                          !.outputImage = NoImage]

\* A finally block that frees nothing.
FinallyNoFree(h, r, inputImage, outputImage) == h

\* finally: free inputImage and outputImage when they are set.
Finally(h, r, inputImage, outputImage) ==
  LET afterInput == IF inputImage # NoImage THEN Free(h, r, inputImage) ELSE h
  IN IF outputImage # NoImage THEN Free(afterInput, r, outputImage)
     ELSE afterInput

\* image.free() on an image that is set and no longer allocated: a second
\* free of the same image.
FreedAgain(h, r, image) ==
  IF image # NoImage /\ <<r, image>> \notin h THEN {<<r, image>>} ELSE {}

\* The images the finally block frees a second time.
FinallyFreedAgain(h, r, inputImage, outputImage) ==
  LET afterInput == IF inputImage # NoImage THEN Free(h, r, inputImage) ELSE h
  IN FreedAgain(h, r, inputImage) \cup FreedAgain(afterInput, r, outputImage)

\* Decode, resize and encode, then derive the filename; `ok` says whether
\* every call of the image library returns.
UploadProcess(r, ok, mentionsMemory) ==
  /\ req[r].kind = "upload" /\ req[r].pc = "process"
  /\ \E fault \in ImageFaults(req[r].file, ok),
        newHeight \in NewHeights(req[r].file) :
       LET left == ProcessImage(heap, r, req[r].file, fault, newHeight)
           filename == StoredFilename(req[r].file.name,
                                      req[r].existingFilenames, clock)
       IN IF ~left.thrown
          THEN /\ req' = [req EXCEPT ![r].pc = "put",
                                     ![r].optimizedLen =
                                        JpegLength(req[r].file.size),
                                     ![r].width = left.width,
                                     ![r].height = left.height,
                                     ![r].maxWidth = left.maxWidth,
                                     ![r].quality = left.quality,
                                     ![r].inputImage = left.inputImage,
                                     ![r].outputImage = left.outputImage,
                                     ![r].filename = filename,
                                     ![r].existingFilenames = @ \cup {filename}]
               /\ heap' = left.heap
               /\ UNCHANGED <<response, uploadStatuses, freedTwice>>
          ELSE /\ heap' = Finally(left.heap, r, left.inputImage,
                                  left.outputImage)
               /\ freedTwice' = freedTwice \cup
                    FinallyFreedAgain(left.heap, r, left.inputImage,
                                      left.outputImage)
               /\ UploadCatch(r, fault, mentionsMemory)
  /\ UNCHANGED <<rows, hasColumn, objects, clock, nextId, served, listed,
                 loaderData, selectedFiles, reload, posted>>

\* The Body of the PutObjectCommand: the JPEG made from the file.
Body(rec) ==
  [ src |-> rec.file.name, len |-> rec.optimizedLen,
    width |-> rec.width, height |-> rec.height, quality |-> rec.quality ]

\* PutObjectCommand(Key: filename, Body: optimizedBuffer)
UploadPut(r, ok, mentionsMemory) ==
  /\ req[r].kind = "upload" /\ req[r].pc = "put"
  /\ IF ok
     THEN /\ objects' = PutObject(objects, req[r].filename, Body(req[r]))
          /\ req' = [req EXCEPT ![r].pc = "alter"]
          /\ UNCHANGED <<response, uploadStatuses, heap, freedTwice>>
     ELSE /\ objects' = objects
          /\ heap' = Finally(heap, r, req[r].inputImage, req[r].outputImage)
          /\ freedTwice' = freedTwice \cup
               FinallyFreedAgain(heap, r, req[r].inputImage,
                                 req[r].outputImage)
          /\ UploadCatch(r, "put", mentionsMemory)
  /\ UNCHANGED <<rows, hasColumn, clock, nextId, served, listed, loaderData,
                 selectedFiles, reload, posted>>

\* The column-add of the upload branch.
UploadAlter(r, ok) ==
  /\ req[r].kind = "upload" /\ req[r].pc = "alter"
  /\ AlterTable(ok /\ ~hasColumn)
  /\ req' = [req EXCEPT ![r].pc = "max"]
  /\ UNCHANGED <<rows, objects, clock, nextId, served, response, listed,
                 uploadStatuses, loaderData, heap, selectedFiles, reload,
                 freedTwice, posted>>

\* Whether the max query returns: not when the call fails, and not when
\* the column is absent.
MaxQueryOk(ok) == ok /\ hasColumn

\* newOrder that ignores the rows.
NewOrderAlwaysFirst(ok) == 1

\* newOrder: max + 1, or 1 when the max is NULL or the query fails.
NewOrder(ok) ==
  IF MaxQueryOk(ok) /\ MaxOrder(rows) # NULL THEN MaxOrder(rows) + 1 ELSE 1

\* SELECT MAX(display_order) as max_order FROM files, in its own try/catch.
UploadMax(r, ok) ==
  /\ req[r].kind = "upload" /\ req[r].pc = "max"
  /\ req' = [req EXCEPT ![r].pc = "insert", ![r].newOrder = NewOrder(ok),
                        ![r].maxOrderRead = MaxQueryOk(ok)]
  /\ UNCHANGED <<rows, hasColumn, objects, clock, nextId, served, response,
                 listed, uploadStatuses, loaderData, heap, selectedFiles,
                 reload, freedTwice, posted>>

\* The row bound to the INSERT statement.
NewRow(rec, id, now) ==
  [ id |-> id, filename |-> rec.filename, url |-> Url(rec.filename),
    size |-> rec.optimizedLen, content_type |-> "image/jpeg",
    uploaded_at |-> now, display_order |-> rec.newOrder ]

\* Whether the INSERT (or UPDATE) naming display_order succeeds: not when
\* the call fails, and not when the column is absent.
StatementOk(ok) == ok /\ hasColumn

\* INSERT INTO files (..., display_order) VALUES (...), then the success
\* response; the finally block runs on both ways out.
UploadInsert(r, ok, mentionsMemory) ==
  /\ req[r].kind = "upload" /\ req[r].pc = "insert"
  /\ heap' = Finally(heap, r, req[r].inputImage, req[r].outputImage)
  /\ freedTwice' = freedTwice \cup
       FinallyFreedAgain(heap, r, req[r].inputImage, req[r].outputImage)
  /\ IF StatementOk(ok)
     THEN /\ rows' = rows \cup {NewRow(req[r], nextId + 1, clock)}
          /\ nextId' = nextId + 1
          /\ listed' = listed \cup {<<nextId + 1, req[r].filename>>}
          /\ JsonResponse(r, "upload", TRUE, 200, "none")
     ELSE /\ UNCHANGED <<rows, nextId, listed>>
          /\ UploadCatch(r, "insert", mentionsMemory)
  /\ UNCHANGED <<hasColumn, objects, clock, served, loaderData,
                 selectedFiles, reload, posted>>

\* ----------------------------------------------------------------- delete

\* intent=delete with form fields id and filename.
SubmitDelete(r, fileId, filename) ==
  /\ req[r].kind = "none"
  /\ req' = [req EXCEPT ![r] =
       [Idle EXCEPT !.kind = "delete", !.pc = "deleteObject",
                    !.fileId = fileId, !.filename = filename,
                    !.before = rows, !.keysBefore = DOMAIN objects]]
  /\ UNCHANGED <<rows, hasColumn, objects, clock, nextId,
                 response, listed, uploadStatuses, loaderData, heap,
                 selectedFiles, reload, freedTwice>>

\* DeleteFromR2 with a failed object deletion swallowed: the handler goes
\* on to the row deletion.
DeleteFromR2Swallow(r, ok) ==
  /\ req[r].kind = "delete" /\ req[r].pc = "deleteObject"
  /\ objects' = (IF ok THEN DeleteObject(objects, req[r].filename) ELSE objects)
  /\ req' = [req EXCEPT ![r].pc = "deleteRow"]
  /\ UNCHANGED <<rows, hasColumn, clock, nextId, served,
                 response, listed, uploadStatuses, loaderData, heap,
                 selectedFiles, reload, freedTwice, posted>>

\* DeleteObjectCommand(Key: filename)
DeleteFromR2(r, ok) ==
  /\ req[r].kind = "delete" /\ req[r].pc = "deleteObject"
  /\ IF ok
     THEN /\ objects' = DeleteObject(objects, req[r].filename)
          /\ req' = [req EXCEPT ![r].pc = "deleteRow"]
          /\ UNCHANGED <<response, uploadStatuses>>
     ELSE /\ objects' = objects
          /\ JsonResponse(r, "delete", FALSE, 500, "deleteObject")
  /\ UNCHANGED <<rows, hasColumn, clock, nextId,
                 served, listed, loaderData, heap, selectedFiles, reload,
                 freedTwice, posted>>

\* DeleteRow without the WHERE clause.
DeleteRowAll(table, fileId) == {}

\* DeleteRow that deletes nothing.
DeleteRowKeepsRow(table, fileId) == table

\* DELETE FROM files WHERE id = ?
DeleteRow(table, fileId) == {row \in table : row.id # fileId}

DeleteFromD1(r, ok) ==
  /\ req[r].kind = "delete" /\ req[r].pc = "deleteRow"
  /\ IF ok
     THEN /\ rows' = DeleteRow(rows, req[r].fileId)
          /\ JsonResponse(r, "delete", TRUE, 200, "none")
     ELSE /\ rows' = rows
          /\ JsonResponse(r, "delete", FALSE, 500, "deleteRow")
  /\ UNCHANGED <<hasColumn, objects, clock, nextId,
                 served, listed, loaderData, heap, selectedFiles, reload,
                 freedTwice, posted>>

\* ---------------------------------------------------------------- reorder

\* The form field `order`: absent, not parseable, or a JSON array.
NoOrder == [given |-> FALSE, json |-> FALSE, list |-> <<>>]

BadOrder == [given |-> TRUE, json |-> FALSE, list |-> <<>>]

OrderOf(list) == [given |-> TRUE, json |-> TRUE, list |-> list]

\* intent=reorder: the input check, then JSON.parse inside the try block.
SubmitReorder(r, orderData) ==
  /\ req[r].kind = "none"
  /\ IF ~orderData.given
     THEN JsonResponse(r, "reorder", FALSE, 400, "noorder")
     ELSE IF ~orderData.json
     THEN JsonResponse(r, "reorder", FALSE, 500, "parse")
     ELSE /\ req' = [req EXCEPT ![r] =
               [Idle EXCEPT !.kind = "reorder", !.pc = "alter",
                            !.order = orderData.list, !.before = rows]]
          /\ UNCHANGED <<response, uploadStatuses>>
  /\ UNCHANGED <<rows, hasColumn, objects, clock,
                 nextId, listed, loaderData, heap, selectedFiles, reload,
                 freedTwice>>

\* The column-add of the reorder branch; with an empty list the loop body
\* never runs and the success response follows.
ReorderAlter(r, ok) ==
  /\ req[r].kind = "reorder" /\ req[r].pc = "alter"
  /\ AlterTable(ok /\ ~hasColumn)
  /\ IF Len(req[r].order) = 0
     THEN JsonResponse(r, "reorder", TRUE, 200, "none")
     ELSE /\ req' = [req EXCEPT ![r].pc = "update", ![r].k = 1]
          /\ UNCHANGED <<response, uploadStatuses>>
  /\ UNCHANGED <<rows, objects, clock, nextId,
                 served, listed, loaderData, heap, selectedFiles, reload,
                 freedTwice, posted>>

\* UpdateOrder that writes nothing.
UpdateOrderNothing(table, item) == table

\* UpdateOrder without the WHERE clause.
UpdateOrderAll(table, item) ==
  {[row EXCEPT !.display_order = item.order] : row \in table}

\* UpdateOrder that writes the 0-based position.
UpdateOrderOffByOne(table, item) ==
  {IF row.id = item.id THEN [row EXCEPT !.display_order = item.order - 1]
   ELSE row : row \in table}

\* UPDATE files SET display_order = ? WHERE id = ?
UpdateOrder(table, item) ==
  {IF row.id = item.id THEN [row EXCEPT !.display_order = item.order] ELSE row
     : row \in table}

\* ReorderUpdate that puts the rows back as they were when an update fails.
ReorderUpdateRollsBack(r, ok) ==
  /\ req[r].kind = "reorder" /\ req[r].pc = "update"
  /\ IF StatementOk(ok)
     THEN /\ rows' = UpdateOrder(rows, req[r].order[req[r].k])
          /\ IF req[r].k = Len(req[r].order)
             THEN JsonResponse(r, "reorder", TRUE, 200, "none")
             ELSE /\ req' = [req EXCEPT ![r].k = @ + 1]
                  /\ UNCHANGED <<response, uploadStatuses>>
     ELSE /\ rows' = req[r].before
          /\ JsonResponse(r, "reorder", FALSE, 500, "update")
  /\ UNCHANGED <<hasColumn, objects, clock, nextId, served, listed,
                 loaderData, heap, selectedFiles, reload, freedTwice, posted>>

\* One iteration of the loop. After the last item the success response
\* follows.
ReorderUpdate(r, ok) ==
  /\ req[r].kind = "reorder" /\ req[r].pc = "update"
  /\ IF StatementOk(ok)
     THEN /\ rows' = UpdateOrder(rows, req[r].order[req[r].k])
          /\ IF req[r].k = Len(req[r].order)
             THEN JsonResponse(r, "reorder", TRUE, 200, "none")
             ELSE /\ req' = [req EXCEPT ![r].k = @ + 1]
                  /\ UNCHANGED <<response, uploadStatuses>>
     ELSE /\ rows' = rows
          /\ JsonResponse(r, "reorder", FALSE, 500, "update")
  /\ UNCHANGED <<hasColumn, objects, clock, nextId,
                 served, listed, loaderData, heap, selectedFiles, reload,
                 freedTwice, posted>>

\* ------------------------------------------------------------ other intent

\* Any other or missing intent falls through to "Invalid action".
SubmitInvalid(r, intent) ==
  /\ req[r].kind = "none"
  /\ intent \notin {"upload", "delete", "reorder"}
  /\ JsonResponse(r, "invalid", FALSE, 400, "intent")
  /\ UNCHANGED <<rows, hasColumn, objects, clock,
                 nextId, listed, loaderData, heap, selectedFiles, reload,
                 freedTwice>>

\* ----------------------------------------------------------- Gallery Reader

\* All orderings of a finite set as sequences.
Perms(S) ==
  {f \in [1..Cardinality(S) -> S] : \A i, j \in 1..Cardinality(S) :
                                       i # j => f[i] # f[j]}

\* COALESCE(display_order, 999999) as display_order
Coalesce(row) ==
  IF row.display_order = NULL THEN Sentinel ELSE row.display_order

\* The columns the ordered query selects.
Selected(row) ==
  [ id |-> row.id, filename |-> row.filename, url |-> row.url,
    size |-> row.size, uploaded_at |-> row.uploaded_at,
    display_order |-> Coalesce(row) ]

\* The columns the fallback query selects.
SelectedFallback(row) ==
  [ id |-> row.id, filename |-> row.filename, url |-> row.url,
    size |-> row.size, uploaded_at |-> row.uploaded_at ]

\* ORDER BY display_order ASC, uploaded_at DESC (display_order being the
\* coalesced output column).
OrderedBefore(a, b) ==
  \/ a.display_order < b.display_order
  \/ a.display_order = b.display_order /\ a.uploaded_at >= b.uploaded_at

\* NewestBefore with the oldest row first.
OldestBefore(a, b) == a.uploaded_at <= b.uploaded_at

\* ORDER BY uploaded_at DESC
NewestBefore(a, b) == a.uploaded_at >= b.uploaded_at

\* The results the ordered query can return: rows that compare equal come
\* in any order.
OrderedQuery(table) ==
  {f \in Perms({Selected(row) : row \in table}) :
     \A i, j \in 1..Len(f) : i < j => OrderedBefore(f[i], f[j])}

\* The results of the fallback query.
FallbackQuery(table) ==
  {f \in Perms({SelectedFallback(row) : row \in table}) :
     \A i, j \in 1..Len(f) : i < j => NewestBefore(f[i], f[j])}

\* loader (home.tsx and upload.tsx): the ordered query; if it fails (it
\* does when the column is absent) the fallback query; if that fails too
\* the empty list.
LoaderOutputs(table, column, faults) ==
  (IF column THEN OrderedQuery(table) ELSE {})
    \cup (IF ~column \/ faults THEN FallbackQuery(table) ELSE {})
    \cup (IF faults THEN {<< >>} ELSE {})

\* One run of loader: which of the two queries return decides the result.
Loader(orderedOk, fallbackOk) ==
  /\ IF orderedOk /\ hasColumn
     THEN \E f \in OrderedQuery(rows) :
            loaderData' = [files |-> f, query |-> "ordered"]
     ELSE IF fallbackOk
     THEN \E f \in FallbackQuery(rows) :
            loaderData' = [files |-> f, query |-> "fallback"]
     ELSE loaderData' = [files |-> << >>, query |-> "empty"]
  /\ UNCHANGED <<rows, hasColumn, objects, clock, nextId, req, served,
                 response, listed, heap, uploadStatuses, selectedFiles,
                 reload, freedTwice, posted>>

\* ----------------------------------------------------------- the admin page

\* newOrder.splice(draggedIndex, 1) then newOrder.splice(dropIndex, 0, item),
\* with 1-based positions.
Splice(list, draggedIndex, dropIndex) ==
  LET rest == [i \in 1..(Len(list) - 1) |->
                 IF i < draggedIndex THEN list[i] ELSE list[i + 1]]
  IN [i \in 1..Len(list) |->
        IF i < dropIndex THEN rest[i]
        ELSE IF i = dropIndex THEN list[draggedIndex]
        ELSE rest[i - 1]]

\* newOrder.map((file, index) => ({ id: file.id, order: index + 1 }))
OrderData(list) == [i \in 1..Len(list) |-> [id |-> list[i].id, order |-> i]]

\* handleDrop on a freshly loaded list: reorder it and submit the new ranks.
HandleDrop(r, orderedFiles, draggedIndex, dropIndex) ==
  /\ draggedIndex # dropIndex
  /\ SubmitReorder(r, OrderOf(OrderData(
       Splice(orderedFiles, draggedIndex, dropIndex))))

\* The Delete button of a record some loaded page lists: the form carries
\* the record's id and filename.
ClickDelete(r, file) == SubmitDelete(r, file[1], file[2])

\* Time passes.
Tick ==
  /\ clock < MaxClock
  /\ clock' = clock + 1
  /\ UNCHANGED <<rows, hasColumn, objects, nextId, req,
                 served, response, listed, uploadStatuses, loaderData,
                 heap, selectedFiles, reload, freedTwice, posted>>

\* ------------------------------------------------------------ specification

\* The outcomes of a remote call: it succeeds, or (with faults) it fails.
Outcomes(faults) == IF faults THEN BOOLEAN ELSE {TRUE}

\* A request may start: always when requests overlap, and only when no
\* other request is in flight when they run one at a time.
MayStart(overlap) == served < MaxServed /\ (overlap \/ NoneInFlight)

\* The platform hands a request to a free slot; slots are interchangeable,
\* so it takes the first.
FreeSlot(r) ==
  /\ req[r].kind = "none"
  /\ \A q \in Requests : q < r => req[q].kind # "none"

Submit(r, overlap) ==
  /\ MayStart(overlap)
  /\ FreeSlot(r)
  /\ served' = served + 1
  /\ posted' = posted
  /\ \/ \E file \in Files : SubmitUpload(r, file)
     \/ \E file \in listed : ClickDelete(r, file)
     \/ \E orderedFiles \in LoaderOutputs(rows, hasColumn, FALSE) :
          \E i, j \in 1..Len(orderedFiles) : HandleDrop(r, orderedFiles, i, j)
     \/ \E orderData \in {NoOrder, BadOrder} : SubmitReorder(r, orderData)
     \/ \E intent \in OtherIntents : SubmitInvalid(r, intent)

Step(r, faults) ==
  \E ok \in Outcomes(faults), mentionsMemory \in BOOLEAN :
    \/ UploadSelect(r, ok, mentionsMemory)
    \/ UploadProcess(r, ok, mentionsMemory)
    \/ UploadPut(r, ok, mentionsMemory)
    \/ UploadAlter(r, ok)
    \/ UploadMax(r, ok)
    \/ UploadInsert(r, ok, mentionsMemory)
    \/ DeleteFromR2(r, ok)
    \/ DeleteFromD1(r, ok)
    \/ ReorderAlter(r, ok)
    \/ ReorderUpdate(r, ok)

NextOf(overlap, faults) ==
  \/ \E r \in Requests : Submit(r, overlap)
  \/ \E r \in Requests : Step(r, faults)
  \/ Tick

\* Requests overlap and remote calls may fail.
Next == NextOf(TRUE, TRUE)

Spec == Init /\ [][Next]_vars

\* Requests run one at a time; remote calls may fail.
NextSeq == NextOf(FALSE, TRUE)

SpecSeq == Init /\ [][NextSeq]_vars

\* Requests overlap; no remote call fails.
NextNoFault == NextOf(TRUE, FALSE)

SpecNoFault == Init /\ [][NextNoFault]_vars

\* ------------------------------------------- a gallery that holds records

\* Number of requests sent to a gallery that already holds records.
MaxPosted == 1

\* An id no row has.
UnknownId == 99

\* The ranks a stored row can have: none (a row inserted before the column
\* was added), 1 or 2.
StoredRanks == {NULL, 1, 2}

\* The ranks a posted order list can carry.
PostedRanks == {1, 2, Sentinel + 1}

\* The two records of the gallery: a.jpg, stored at time 0, and a-1.jpg,
\* stored at time 1.
StoredFile(id) ==
  [ present |-> TRUE,
    name |-> IF id = 1 THEN <<"a", ".", "j", "p", "g">>
             ELSE <<"a", "-", "1", ".", "j", "p", "g">>,
    size |-> 8388608, width |-> 1600, height |-> 1080 ]

StoredRequest(id) ==
  [Idle EXCEPT !.file = StoredFile(id),
               !.filename = DerivedName(StoredFile(id).name),
               !.optimizedLen = JpegLength(StoredFile(id).size),
               !.width = 1600, !.height = 1080,
               !.maxWidth = 1920, !.quality = 75]

StoredRow(id, rank) ==
  NewRow([StoredRequest(id) EXCEPT !.newOrder = rank], id, id - 1)

\* The tables of a gallery of at most two records; without the column no
\* row has a rank.
StoredTables ==
  { {StoredRow(id, rank[id]) : id \in ids} :
      ids \in SUBSET {1, 2}, rank \in [{1, 2} -> StoredRanks] }

\* The order lists a client can post: up to two items with distinct ids.
OrderLists ==
  LET Items == [id : {1, 2, UnknownId}, order : PostedRanks]
  IN {<< >>} \cup {<<a>> : a \in Items}
       \cup {x \in Items \X Items : x[1].id # x[2].id}

InitGallery ==
  /\ rows \in StoredTables
  /\ hasColumn \in BOOLEAN
  /\ ~hasColumn => \A row \in rows : row.display_order = NULL
  /\ objects = [f \in {row.filename : row \in rows} |->
                  Body(StoredRequest(CHOOSE id \in {1, 2} :
                                       DerivedName(StoredFile(id).name) = f))]
  /\ clock = 1
  /\ nextId = 2
  /\ req = [r \in Requests |-> Idle]
  /\ served = 0
  /\ response = NoResponse
  /\ listed = {<<row.id, row.filename>> : row \in rows}
  /\ heap = {}
  /\ loaderData = NoData
  /\ uploadStatuses = << >>
  /\ selectedFiles = << >>
  /\ reload = "none"
  /\ freedTwice = {}
  /\ posted = << >>

\* A request to the gallery, sent when no other is in flight: an upload, a
\* delete from the page, a drag on the loaded page, or a posted order list.
Post(r) ==
  /\ served < MaxPosted
  /\ NoneInFlight
  /\ FreeSlot(r)
  /\ served' = served + 1
  /\ posted' = posted
  /\ \/ \E file \in Files : SubmitUpload(r, file)
     \/ \E file \in listed : ClickDelete(r, file)
     \/ \E i, j \in 1..Len(loaderData.files) :
          HandleDrop(r, loaderData.files, i, j)
     \/ \E list \in OrderLists : SubmitReorder(r, OrderOf(list))
     \/ \E orderData \in {NoOrder, BadOrder} : SubmitReorder(r, orderData)

NextGallery ==
  \/ \E r \in Requests : Post(r)
  \/ \E r \in Requests : Step(r, TRUE)
  \/ \E orderedOk, fallbackOk \in BOOLEAN : Loader(orderedOk, fallbackOk)

SpecGallery == InitGallery /\ [][NextGallery]_vars

\* ------------------------------------------- concurrent reorder requests

\* Number of reorder requests sent to the gallery at the same time.
MaxReorders == 2

\* A gallery with the column that holds both records.
InitReorders ==
  /\ InitGallery
  /\ hasColumn
  /\ Cardinality(rows) = 2

\* What a page that lists both records can post after a drag: the records
\* in some order, ranked 1, 2.
DragLists ==
  {OrderData(files) : files \in Perms({Selected(row) : row \in rows})}

\* A reorder request from one of the pages, whatever else is in flight.
PostReorder(r) ==
  /\ served < MaxReorders
  /\ FreeSlot(r)
  /\ served' = served + 1
  /\ \E list \in DragLists :
       /\ SubmitReorder(r, OrderOf(list))
       /\ posted' = Append(posted, list)

\* The steps of a reorder request.
ReorderStep(r, faults) ==
  \E ok \in Outcomes(faults) :
    \/ ReorderAlter(r, ok)
    \/ ReorderUpdate(r, ok)

NextReorders ==
  \/ \E r \in Requests : PostReorder(r)
  \/ \E r \in Requests : ReorderStep(r, FALSE)

SpecReorders == InitReorders /\ [][NextReorders]_vars

\* ------------------------------------------------------ uploads of pictures

\* Number of pictures uploaded.
MaxImages == 1

\* An upload request for a picture, sent when no other is in flight.
PostImage(r) ==
  /\ served < MaxImages
  /\ NoneInFlight
  /\ FreeSlot(r)
  /\ served' = served + 1
  /\ posted' = posted
  /\ \E file \in ImageFiles : SubmitUpload(r, file)

\* The steps of an upload request.
UploadStep(r, faults) ==
  \E ok \in Outcomes(faults), mentionsMemory \in BOOLEAN :
    \/ UploadSelect(r, ok, mentionsMemory)
    \/ UploadProcess(r, ok, mentionsMemory)
    \/ UploadPut(r, ok, mentionsMemory)
    \/ UploadAlter(r, ok)
    \/ UploadMax(r, ok)
    \/ UploadInsert(r, ok, mentionsMemory)

NextImage ==
  \/ \E r \in Requests : PostImage(r)
  \/ \E r \in Requests : UploadStep(r, TRUE)

SpecImage == Init /\ [][NextImage]_vars

\* ------------------------------------------------------ the upload policy

\* Pictures at and just over each threshold of the policy: 10MB and 20MB,
\* 4000 and 5000 pixels, and the 2000 x 1000 picture of 8MB.
PolicySizes == {8388608, 10485760, 10485761, 20971520, 20971521}

PolicyWidths == {2000, 4000, 4001, 5000, 5001}

PolicyHeights == {1000, 4000, 4001, 5000, 5001}

PolicyFiles ==
  [present : {TRUE}, name : {<<"a", ".", "p", "n", "g">>}, size : PolicySizes,
   width : PolicyWidths, height : PolicyHeights]

\* An upload request for a picture of the policy's thresholds.
PostPolicyFile(r) ==
  /\ served < MaxImages
  /\ NoneInFlight
  /\ FreeSlot(r)
  /\ served' = served + 1
  /\ posted' = posted
  /\ \E file \in PolicyFiles : SubmitUpload(r, file)

NextPolicy ==
  \/ \E r \in Requests : PostPolicyFile(r)
  \/ \E r \in Requests : UploadStep(r, TRUE)

SpecPolicy == Init /\ [][NextPolicy]_vars

\* ------------------------------------------------------- a submitted batch

\* Number of files in a batch (each file's request has a slot of its own).
MaxBatch == 2

\* The files the admin can select.
BatchFiles == {file \in Files : file.present}

\* selectedFiles: up to MaxBatch files with distinct names.
Batches ==
  {files \in UNION {[1..n -> BatchFiles] : n \in 1..MaxBatch} :
     \A i, j \in DOMAIN files : i # j => files[i].name # files[j].name}

\* No file of the batch is still pending: the synchronous part of
\* handleSubmit is over.
AllStarted ==
  \A i \in DOMAIN uploadStatuses : uploadStatuses[i].status # "pending"

\* The submit button is disabled while a file has the status uploading.
SomeUploading ==
  \E i \in DOMAIN uploadStatuses : uploadStatuses[i].status = "uploading"

\* handleSubmit, up to the map over the selected files: every selected file
\* gets the status pending. One batch is submitted per page load.
HandleSubmit ==
  /\ reload = "none"
  /\ ~SomeUploading
  /\ Len(selectedFiles) # 0
  /\ uploadStatuses' =
       [i \in 1..Len(selectedFiles) |->
          [file |-> selectedFiles[i], status |-> "pending"]]
  /\ reload' = "awaiting"
  /\ UNCHANGED <<rows, hasColumn, objects, clock, nextId, req, served,
                 response, listed, heap, loaderData, selectedFiles,
                 freedTwice, posted>>

\* The map callback of file i, up to its fetch: the status uploading.
StartUpload(i) ==
  /\ i \in DOMAIN uploadStatuses
  /\ uploadStatuses[i].status = "pending"
  /\ \A j \in 1..(i - 1) : uploadStatuses[j].status # "pending"
  /\ uploadStatuses' = [uploadStatuses EXCEPT ![i].status = "uploading"]
  /\ UNCHANGED <<rows, hasColumn, objects, clock, nextId, req, served,
                 response, listed, heap, loaderData, selectedFiles, reload,
                 freedTwice, posted>>

\* The fetch of file i reaches `action`, in slot i.
Fetch(i) ==
  /\ i \in DOMAIN uploadStatuses
  /\ AllStarted
  /\ uploadStatuses[i].status = "uploading"
  /\ served' = served + 1
  /\ posted' = posted
  /\ SubmitUpload(i, uploadStatuses[i].file)

\* fetch throws (the connection fails): the catch block sets the status
\* error, whatever becomes of the request.
FetchThrows(i) ==
  /\ i \in DOMAIN uploadStatuses
  /\ AllStarted
  /\ uploadStatuses[i].status = "uploading"
  /\ uploadStatuses' = [uploadStatuses EXCEPT ![i].status = "error"]
  /\ UNCHANGED <<rows, hasColumn, objects, clock, nextId, req, served,
                 response, listed, heap, loaderData, selectedFiles, reload,
                 freedTwice, posted>>

\* Promise.all that resolves with the first promise.
AnyResolved(statuses) ==
  \E i \in DOMAIN statuses : statuses[i].status \in {"success", "error"}

\* Promise.all(uploadPromises): the promise of file i resolves when its
\* callback has set the status success or error.
AllResolved(statuses) ==
  \A i \in DOMAIN statuses : statuses[i].status \in {"success", "error"}

\* await Promise.all(uploadPromises), then setTimeout(reload, 1500).
PromiseAll ==
  /\ reload = "awaiting"
  /\ AllStarted
  /\ AllResolved(uploadStatuses)
  /\ reload' = "scheduled"
  /\ UNCHANGED <<rows, hasColumn, objects, clock, nextId, req, served,
                 response, listed, heap, loaderData, uploadStatuses,
                 selectedFiles, freedTwice, posted>>

\* The timer fires: window.location.reload(). The page is replaced; its
\* state stays as it was when it was left.
Reload ==
  /\ reload = "scheduled"
  /\ reload' = "reloaded"
  /\ UNCHANGED <<rows, hasColumn, objects, clock, nextId, req, served,
                 response, listed, heap, loaderData, uploadStatuses,
                 selectedFiles, freedTwice, posted>>

\* The admin has selected a batch.
InitBatch ==
  /\ rows = {}
  /\ hasColumn = FALSE
  /\ objects = << >>
  /\ clock = 1
  /\ nextId = 0
  /\ req = [r \in Requests |-> Idle]
  /\ served = 0
  /\ response = NoResponse
  /\ listed = {}
  /\ heap = {}
  /\ loaderData = NoData
  /\ uploadStatuses = << >>
  /\ selectedFiles \in Batches
  /\ reload = "none"
  /\ freedTwice = {}
  /\ posted = << >>

NextBatch ==
  \/ HandleSubmit
  \/ \E i \in 1..MaxBatch : StartUpload(i)
  \/ \E i \in 1..MaxBatch : Fetch(i)
  \/ \E i \in 1..MaxBatch : FetchThrows(i)
  \/ \E r \in Requests : UploadStep(r, TRUE)
  \/ PromiseAll
  \/ Reload

SpecBatch == InitBatch /\ [][NextBatch]_vars

\* Every request is handled to its end, every promise is settled and the
\* timer fires.
SpecBatchLive == SpecBatch /\ WF_vars(NextBatch)

\* --------------------------------------------------- the selection of files

\* The pictures in the admin's folders: two different pictures named a.png
\* (in two folders) and one named a.jpg.
PageFiles ==
  {file \in BatchFiles :
     \/ file.name = <<"a", ".", "p", "n", "g">>
     \/ file.name = <<"a", ".", "j", "p", "g">> /\ file.size = 8388608}

\* A FileList the file input or a drop delivers: different files, in any
\* order.
FileLists ==
  {list \in UNION {[1..n -> PageFiles] : n \in 1..MaxBatch} :
     \A i, j \in DOMAIN list : i # j => list[i] # list[j]}

\* newFiles.filter((f) => !existingNames.has(f.name)), existingNames being
\* the names of prev.
UniqueNewFiles(prev, newFiles) ==
  LET existingNames == {prev[i].name : i \in DOMAIN prev}
      Kept(f) == f.name \notin existingNames
  IN SelectSeq(newFiles, Kept)

\* handleFiles(fileList): [...prev, ...uniqueNewFiles]. Events are handled
\* between the synchronous parts of handleSubmit, on a page that is there.
HandleFiles(fileList) ==
  /\ reload # "reloaded"
  /\ AllStarted
  /\ Len(selectedFiles \o UniqueNewFiles(selectedFiles, fileList)) <= MaxBatch
  /\ selectedFiles' = selectedFiles \o UniqueNewFiles(selectedFiles, fileList)
  /\ UNCHANGED <<rows, hasColumn, objects, clock, nextId, req, served,
                 response, listed, heap, loaderData, uploadStatuses, reload,
                 freedTwice, posted>>

\* prev.filter((_, i) => i !== index)
Without(prev, index) ==
  [i \in 1..(Len(prev) - 1) |-> IF i < index THEN prev[i] ELSE prev[i + 1]]

\* The Remove button of position index, shown unless the status at that
\* position is uploading: removeFile(index).
RemoveFile(index) ==
  /\ reload # "reloaded"
  /\ AllStarted
  /\ index \in 1..Len(selectedFiles)
  /\ index \in DOMAIN uploadStatuses =>
       uploadStatuses[index].status # "uploading"
  /\ selectedFiles' = Without(selectedFiles, index)
  /\ UNCHANGED <<rows, hasColumn, objects, clock, nextId, req, served,
                 response, listed, heap, loaderData, uploadStatuses, reload,
                 freedTwice, posted>>

\* The admin page from its load: selections, removals and one submitted
\* batch whose requests are handled without a failed call.
NextPage ==
  \/ \E fileList \in FileLists : HandleFiles(fileList)
  \/ \E index \in 1..MaxBatch : RemoveFile(index)
  \/ HandleSubmit
  \/ \E i \in 1..MaxBatch : StartUpload(i)
  \/ \E i \in 1..MaxBatch : Fetch(i)
  \/ \E i \in 1..MaxBatch : FetchThrows(i)
  \/ \E r \in Requests : UploadStep(r, FALSE)
  \/ PromiseAll
  \/ Reload

SpecPage == Init /\ [][NextPage]_vars

\* ------------------------------------------------------------------ claims

\* Slot r's handler takes a step / returns its response in this step.
Moved(r) == req'[r] # req[r]

Returned(r) == req[r].kind # "none" /\ req'[r].kind = "none"

\* The response of the upload catch block.
ServerError(resp) == ~resp.success /\ resp.status \in {500, 413}

Filenames(table) == {row.filename : row \in table}

\* C1: with no request in flight and no failed call, a row with filename f
\* exists if and only if an object with key f exists.
C1_StoresAgree ==
  NoneInFlight => Filenames(rows) = DOMAIN objects

\* C2, the order of an upload's steps: the column-add follows a put that
\* wrote the body under the derived filename, the max query follows the
\* column-add, the insert follows the max query, and only the insert step
\* adds a row.
C2_Order(r) ==
  /\ req'[r].kind = "upload" /\ req'[r].pc = "alter" /\ Moved(r) =>
       /\ req[r].pc = "put"
       /\ req[r].filename \in DOMAIN objects'
       /\ objects'[req[r].filename] = Body(req[r])
  /\ req'[r].pc = "max" /\ Moved(r) =>
       req[r].kind = "upload" /\ req[r].pc = "alter"
  /\ req'[r].pc = "insert" /\ Moved(r) => req[r].pc = "max"
  /\ req[r].kind = "upload" /\ Moved(r) /\ rows' # rows => req[r].pc = "insert"

\* C2, a failed insert: server error, no row, both stores as they were.
C2_InsertFails(r) ==
  req[r].pc = "insert" /\ Returned(r) /\ ~response'.success =>
    /\ ServerError(response')
    /\ rows' = rows
    /\ objects' = objects

\* The column-add of slot r's upload fails in this step.
AlterFails(r) ==
  req[r].kind = "upload" /\ req[r].pc = "alter" /\ Moved(r)
    /\ hasColumn' = hasColumn

\* C2 as stated: the put precedes the insert; if the insert or the
\* column-add before it fails, the request returns a server error, no row
\* is created and the object stays.
C2_Original ==
  [][\A r \in Requests :
       /\ C2_Order(r)
       /\ C2_InsertFails(r)
       /\ AlterFails(r) =>
            /\ Returned(r) /\ ServerError(response')
            /\ rows' = rows /\ objects' = objects]_vars

\* C2 as amended: the put precedes the insert; if the insert fails the
\* request returns a server error, no row is created and the object stays;
\* the column-add and the max query never end the request, whether they
\* fail or not: the request goes on to the insert.
C2_PutBeforeInsert ==
  [][\A r \in Requests :
       /\ C2_Order(r)
       /\ C2_InsertFails(r)
       /\ req[r].kind = "upload" /\ req[r].pc \in {"alter", "max"} /\ Moved(r) =>
            /\ req'[r].pc = (IF req[r].pc = "alter" THEN "max" ELSE "insert")
            /\ response' = response
            /\ rows' = rows /\ objects' = objects]_vars

\* An upload's insert has failed and its object is in the store with no row.
C2_Witness ==
  /\ response.kind = "upload" /\ response.error = "insert"
  /\ \E f \in DOMAIN objects : f \notin Filenames(rows)

\* C3: a delete request deletes a row only after its object deletion; if
\* the object deletion fails the request ends there with a 500 failure and
\* neither store changes.
C3_ObjectFirst ==
  [][\A r \in Requests :
       /\ req[r].kind = "delete" /\ Moved(r) /\ rows' # rows =>
            req[r].pc = "deleteRow"
       /\ req'[r].pc = "deleteRow" /\ Moved(r) =>
            /\ req[r].pc = "deleteObject"
            /\ req[r].filename \notin DOMAIN objects'
       /\ req[r].pc = "deleteObject" /\ Returned(r) =>
            /\ ~response'.success /\ response'.status = 500
            /\ rows' = rows /\ objects' = objects]_vars

\* A delete failed at its object deletion and the record is still there.
C3_Witness ==
  /\ response.kind = "delete" /\ response.error = "deleteObject"
  /\ \E file \in listed :
       /\ \E row \in rows : row.id = file[1]
       /\ file[2] \in DOMAIN objects

\* C4: when the row deletion of a delete request fails, the object is
\* absent, the rows are as they were, the response is a 500 failure and
\* the request has ended (it re-creates nothing and does not retry).
C4_RowDeletionFails ==
  [][\A r \in Requests :
       req[r].pc = "deleteRow" /\ Returned(r) /\ ~response'.success =>
         /\ response'.status = 500
         /\ req[r].filename \notin DOMAIN objects'
         /\ objects' = objects
         /\ rows' = rows]_vars

\* A delete failed at its row deletion: a row is left without its object.
C4_Witness ==
  /\ response.kind = "delete" /\ response.error = "deleteRow"
  /\ \E row \in rows : row.filename \notin DOMAIN objects

\* C5: when a delete request for (id, filename) returns success, no object
\* has key filename, no row has that id, and no output of the Gallery
\* Reader has a record with that id.
C5_Deleted ==
  [][\A r \in Requests :
       req[r].kind = "delete" /\ Returned(r) /\ response'.success =>
         /\ req[r].filename \notin DOMAIN objects'
         /\ \A row \in rows' : row.id # req[r].fileId
         /\ \A files \in LoaderOutputs(rows', hasColumn', TRUE) :
              \A i \in 1..Len(files) : files[i].id # req[r].fileId]_vars

\* A delete succeeded: a listed record has neither row nor object, while
\* another record is still there.
C5_Witness ==
  /\ response.kind = "delete" /\ response.success
  /\ \E file \in listed :
       /\ \A row \in rows : row.id # file[1]
       /\ file[2] \notin DOMAIN objects
  /\ rows # {}

\* The inputs `action` rejects as client errors.
ClientErrors == {"nofile", "toolarge", "noorder", "intent"}

\* C6: a request with a missing file, an oversize file, a missing order
\* payload or an unknown intent never gets into the handler's try block: it
\* is answered at once with a 4xx failure and changes neither store.
C6_ClientErrors ==
  [][/\ \A r \in Requests :
          /\ req'[r].kind = "upload" =>
               req'[r].file.present /\ req'[r].file.size <= maxFileSize
          /\ req'[r].kind \in {"none", "upload", "delete", "reorder"}
     /\ served' # served /\ req' = req /\ response'.error \in ClientErrors =>
          /\ response'.status \in 400..499 /\ ~response'.success
          /\ rows' = rows /\ objects' = objects
          /\ hasColumn' = hasColumn]_vars

\* A reorder without payload was rejected while the stores hold a record.
C6_Witness ==
  /\ response.error = "noorder" /\ response.status = 400
  /\ rows # {} /\ DOMAIN objects # {}

\* C7: an oversize upload is answered with status 413.
C7_Oversize413 ==
  response.error = "toolarge" => response.status = 413

\* What slot r's upload stores its object and its row under.
C8_StoredUnder(r) ==
  /\ req[r].pc = "select" /\ req'[r].pc = "process" =>
       req'[r].existingFilenames = Filenames(rows)
  /\ req[r].pc \in {"put", "alter", "max"} /\ req'[r].kind = "upload" =>
       req'[r].filename = req[r].filename
  /\ req[r].kind = "upload" /\ Moved(r) /\ objects' # objects =>
       objects' = PutObject(objects, req[r].filename, Body(req[r]))
  /\ req[r].kind = "upload" /\ Moved(r) /\ rows' # rows =>
       \E row \in rows' : rows' = rows \cup {row}
                          /\ row.filename = req[r].filename

\* C8: an upload whose derived name is among the filenames it read from the
\* table stores its object and its row under a filename that differs from
\* the derived name and ends in .jpg.
C8_CollisionRenamed ==
  [][\A r \in Requests :
       /\ C8_StoredUnder(r)
       /\ req[r].pc = "process" /\ req'[r].pc = "put"
            /\ DerivedName(req[r].file.name) \in req[r].existingFilenames =>
            /\ req'[r].filename # DerivedName(req[r].file.name)
            /\ EndsWith(req'[r].filename, JPG)]_vars

\* An upload that collided with a filename it read has stored its object
\* under the timestamped name.
C8_Witness ==
  \E r \in Requests :
    /\ req[r].kind = "upload" /\ req[r].pc = "insert"
    /\ DerivedName(req[r].file.name) \in req[r].existingFilenames
    /\ req[r].filename # DerivedName(req[r].file.name)
    /\ req[r].filename \in DOMAIN objects

\* C9: two overlapping uploads of different files that derive the same
\* name have, once both puts are done, two distinct filenames.
C9_DistinctInBatch ==
  \A r1, r2 \in Requests :
    /\ r1 # r2
    /\ req[r1].kind = "upload" /\ req[r2].kind = "upload"
    /\ req[r1].pc \in {"alter", "max", "insert"}
    /\ req[r2].pc \in {"alter", "max", "insert"}
    /\ req[r1].file.name # req[r2].file.name
    /\ DerivedName(req[r1].file.name) = DerivedName(req[r2].file.name)
    => req[r1].filename # req[r2].filename

\* C10: no two rows have the same filename.
C10_UniqueFilenames ==
  \A row1, row2 \in rows : row1.filename = row2.filename => row1 = row2

\* The ranks of a table's rows that have one.
Ranks(table) == {row.display_order : row \in table} \ {NULL}

\* C11: the max step of an upload sets newOrder to the greatest rank of the
\* rows present at that step plus 1 when the query returns and some row has
\* a rank, and to 1 when there is no row, when no row has a rank, or when
\* the query fails; a successful upload inserts exactly one row, with that
\* newOrder as its display_order.
C11_NewOrder ==
  [][\A r \in Requests :
       /\ req[r].kind = "upload" /\ req[r].pc = "max" /\ Moved(r) =>
            /\ req'[r].pc = "insert"
            /\ req'[r].maxOrderRead /\ Ranks(rows) # {} =>
                 /\ req'[r].newOrder - 1 \in Ranks(rows)
                 /\ \A n \in Ranks(rows) : n <= req'[r].newOrder - 1
            /\ rows = {} \/ Ranks(rows) = {} \/ ~req'[r].maxOrderRead =>
                 req'[r].newOrder = 1
       /\ req[r].kind = "upload" /\ Returned(r) /\ response'.success =>
            \E row \in rows' :
              /\ row \notin rows /\ rows' = rows \cup {row}
              /\ row.display_order = req[r].newOrder]_vars

\* An upload into a gallery whose greatest rank was 2 has inserted its row
\* with rank 3.
C11_Witness ==
  /\ response.kind = "upload" /\ response.success
  /\ \E row \in rows : row.id = 3 /\ row.display_order = 3
  /\ \E row \in rows : row.display_order = 2

\* The row of the table a loaded record comes from.
RowOf(file) == CHOOSE row \in rows : row.id = file.id

\* The loader returned in this step, through the named return statement.
Loaded(query) == loaderData' # loaderData /\ loaderData'.query = query

\* The loaded list holds every row of the table once.
AllRowsLoaded ==
  /\ Len(loaderData'.files) = Cardinality(rows)
  /\ {loaderData'.files[i].id : i \in 1..Len(loaderData'.files)}
       = {row.id : row \in rows}

\* C12: when the ordered query returns, the list holds every row, sorted by
\* display_order ascending, every row without display_order after every
\* row with one, and rows of equal display_order newest first.
C12_ReaderSorted ==
  [][Loaded("ordered") =>
       /\ AllRowsLoaded
       /\ \A i, j \in 1..Len(loaderData'.files) : i < j =>
            LET a == RowOf(loaderData'.files[i])
                b == RowOf(loaderData'.files[j])
            IN /\ ~(a.display_order = NULL /\ b.display_order # NULL)
               /\ a.display_order # NULL /\ b.display_order # NULL =>
                    a.display_order <= b.display_order
               /\ a.display_order = b.display_order =>
                    a.uploaded_at >= b.uploaded_at]_vars

\* C13: the loader always returns a list. Without the column the ordered
\* query fails; the fallback query then returns every row, newest first,
\* and when it fails too the list is empty.
C13_ReaderFallback ==
  [][loaderData' # loaderData =>
       /\ loaderData'.query \in {"ordered", "fallback", "empty"}
       /\ ~hasColumn => loaderData'.query # "ordered"
       /\ Loaded("fallback") =>
            /\ AllRowsLoaded
            /\ \A i, j \in 1..Len(loaderData'.files) : i < j =>
                 loaderData'.files[i].uploaded_at
                   >= loaderData'.files[j].uploaded_at
       /\ Loaded("empty") => loaderData'.files = << >>]_vars

\* Without the column, the loader has returned two rows, the newer first.
C13_Witness ==
  /\ ~hasColumn
  /\ loaderData.query = "fallback"
  /\ Len(loaderData.files) = 2
  /\ loaderData.files[1].uploaded_at > loaderData.files[2].uploaded_at

\* The ids of a table's rows.
Ids(table) == {row.id : row \in table}

\* The place of the record with the given id in a loaded list.
Place(files, id) == CHOOSE i \in 1..Len(files) : files[i].id = id

\* The ids of a loaded list, in order.
IdsOf(files) == [i \in 1..Len(files) |-> files[i].id]

\* What the admin page posts after a drag: rank = position for every item.
IsDragList(order) == \A i \in 1..Len(order) : order[i].order = i

\* C14: when a reorder request that ran on its own returns success, every
\* list the Gallery Reader can then return has the records of the posted
\* list in the order of their ranks, lower rank first; and a list posted
\* after a drag that names every record is read back exactly.
C14_ReadBack ==
  [][\A r \in Requests :
       req[r].kind = "reorder" /\ Returned(r) /\ response'.success =>
         \A files \in LoaderOutputs(rows', hasColumn', FALSE) :
           LET order == req[r].order
               known == {i \in 1..Len(order) : order[i].id \in Ids(rows')}
           IN /\ \A i, j \in known :
                   order[i].order < order[j].order =>
                     Place(files, order[i].id) < Place(files, order[j].id)
              /\ IsDragList(order) /\ known = 1..Len(order)
                   /\ Len(order) = Cardinality(rows') =>
                   IdsOf(files) = [i \in 1..Len(order) |-> order[i].id]]_vars

\* The page listed a.jpg before a-1.jpg, a drag posted them the other way
\* round, and the request succeeded: a-1.jpg now has rank 1, a.jpg rank 2.
C14_Witness ==
  /\ response.kind = "reorder" /\ response.success
  /\ Len(loaderData.files) = 2
  /\ IdsOf(loaderData.files) = <<1, 2>>
  /\ \E row \in rows : row.id = 2 /\ row.display_order = 1
  /\ \E row \in rows : row.id = 1 /\ row.display_order = 2

\* The row with the given id, in a table.
RowIn(table, id) == CHOOSE row \in table : row.id = id

\* C15: each step of the reorder loop either writes item k's rank to the
\* row with item k's id, leaves every other row, and goes on to item k + 1
\* (after the last item: returns success); or it fails: then the request
\* returns a 500 failure, the step changes no row, the rows of the items
\* before k have their posted rank and the rows of the items from k on are
\* as they were when the request arrived. Success is returned only after
\* the last item.
C15_LoopAborts ==
  [][\A r \in Requests :
       req[r].kind = "reorder" /\ req[r].pc = "update" /\ Moved(r) =>
         LET order == req[r].order
             k == req[r].k
         IN IF Returned(r) /\ ~response'.success
            THEN /\ response'.status = 500
                 /\ rows' = rows
                 /\ \A j \in 1..(k - 1) : order[j].id \in Ids(rows) =>
                      RowIn(rows, order[j].id).display_order = order[j].order
                 /\ \A j \in k..Len(order) : order[j].id \in Ids(rows) =>
                      RowIn(rows, order[j].id) \in req[r].before
            ELSE /\ rows' = {IF row.id = order[k].id
                             THEN [row EXCEPT !.display_order = order[k].order]
                             ELSE row : row \in rows}
                 /\ IF k = Len(order)
                    THEN Returned(r) /\ response'.success
                    ELSE /\ req'[r].pc = "update" /\ req'[r].k = k + 1
                         /\ response' = response]_vars

\* A reorder failed at its second item after its first item wrote the rank
\* 1000000.
C15_Witness ==
  /\ response.kind = "reorder" /\ response.error = "update"
  /\ \E row \in rows : row.display_order = Sentinel + 1
  /\ \E row \in rows : row.display_order # Sentinel + 1

\* C16: no step of a reorder request adds or removes a row or changes the
\* rank of a row whose id is not in the posted list; the step of an item
\* whose id matches no row changes no row, and does not keep the request
\* from going on to the next item or to its success response.
C16_NoRowAddedOrRemoved ==
  [][\A r \in Requests :
       req[r].kind = "reorder" /\ Moved(r) =>
         LET order == req[r].order
         IN /\ Ids(rows') = Ids(rows)
            /\ Cardinality(rows') = Cardinality(rows)
            /\ \A row \in rows :
                 (\A j \in 1..Len(order) : order[j].id # row.id) =>
                   row \in rows'
            /\ req[r].pc = "update" /\ order[req[r].k].id \notin Ids(rows) =>
                 /\ rows' = rows
                 /\ \/ req'[r].pc = "update" /\ req'[r].k = req[r].k + 1
                    \/ Returned(r) /\ response'.success
                         /\ req[r].k = Len(order)
                    \/ Returned(r) /\ response'.error = "update"]_vars

\* A reorder request is past a first item whose id no row has, and the two
\* rows are as they were when it arrived.
C16_Witness ==
  \E r \in Requests :
    /\ req[r].kind = "reorder" /\ req[r].pc = "update" /\ req[r].k = 2
    /\ req[r].order[1].id = UnknownId
    /\ Cardinality(rows) = 2
    /\ rows = req[r].before

\* C17: a step changes a row only in three ways. It inserts it (the insert
\* step of an upload, with a new id); it deletes it (the row-deletion step
\* of a delete request for its id); or it changes its display_order and
\* nothing else (an update step of a reorder request whose list names its
\* id). Every other row stays as it is.
C17_RowsFrame ==
  [][/\ \A row \in rows :
          \/ row \in rows'
          \/ /\ row.id \notin Ids(rows')
             /\ \E r \in Requests :
                  /\ req[r].kind = "delete" /\ req[r].pc = "deleteRow"
                  /\ Moved(r) /\ req[r].fileId = row.id
          \/ /\ \E new \in rows' :
                  new = [row EXCEPT !.display_order = new.display_order]
             /\ \E r \in Requests :
                  /\ req[r].kind = "reorder" /\ req[r].pc = "update" /\ Moved(r)
                  /\ \E j \in 1..Len(req[r].order) : req[r].order[j].id = row.id
     /\ \A new \in rows' :
          new.id \notin Ids(rows) =>
            \E r \in Requests :
              req[r].kind = "upload" /\ req[r].pc = "insert" /\ Moved(r)]_vars

\* A drag has moved the first uploaded record to rank 2 while another
\* record is stored.
C17_Witness ==
  /\ response.kind = "reorder" /\ response.success
  /\ \E row \in rows : row.id = 1 /\ row.display_order = 2
  /\ Cardinality(rows) = 2

\* The smaller of two numbers.
Min(a, b) == IF a <= b THEN a ELSE b

\* round(num / den), a half rounded up as Math.round does.
RoundHalfUp(num, den) == (2 * num + den) \div (2 * den)

\* The absolute value.
Abs(n) == IF n < 0 THEN -n ELSE n

\* The picture an upload has encoded in this step: W x H is the source and
\* M the maximum width of its tier.
C18_Encoded(r, Height(_, _, _)) ==
  req[r].kind = "upload" /\ req[r].pc = "process" /\ req'[r].pc = "put" =>
    LET W == req[r].file.width
        H == req[r].file.height
        M == Tier(req[r].file).maxWidth
    IN /\ req'[r].width = Min(W, M)
       /\ req'[r].width <= M
       /\ W > M => Height(req'[r].height, M * H, W)
       /\ W > M => Abs(req'[r].height * W - M * H) < W
       /\ W <= M => req'[r].width = W /\ req'[r].height = H

\* The body an upload puts is the picture it encoded.
C18_Stored(r) ==
  req[r].kind = "upload" /\ req[r].pc = "put" /\ req'[r].pc = "alter" =>
    /\ objects'[req[r].filename].width = req[r].width
    /\ objects'[req[r].filename].height = req[r].height

\* height = round(M*H/W)
C18_IsRound(height, num, den) == height = RoundHalfUp(num, den)

\* height is an integer nearest to M*H/W
C18_IsNearest(height, num, den) == 2 * Abs(height * den - num) <= den

\* C18 as stated: the encoded picture has width min(W, M); when W > M its
\* height is round(M*H/W), less than one pixel from the proportional
\* height; when W <= M both dimensions are the source's.
C18_Original ==
  [][\A r \in Requests :
       C18_Encoded(r, C18_IsRound) /\ C18_Stored(r)]_vars

\* C18 as amended: the same, with the height an integer nearest to M*H/W,
\* which is round(M*H/W) except that at an exact half it can be the integer
\* below.
C18_Dimensions ==
  [][\A r \in Requests :
       C18_Encoded(r, C18_IsNearest) /\ C18_Stored(r)]_vars

\* A 3840 x 1923 picture of the 1920 tier has been stored as 1920 x 961.
C18_Witness ==
  \E f \in DOMAIN objects :
    objects[f].width = 1920 /\ objects[f].height = 961

\* C19: whenever an upload request has returned, by whichever way out, no
\* decoded image it created (the decoded input, the resized output) is
\* still allocated.
C19_BuffersReleased ==
  \A r \in Requests :
    ~InFlight(r) => \A image \in {"decoded", "resized"} : <<r, image>> \notin heap

\* An upload has returned through the catch block after the JPEG encoding
\* of its decoded picture threw.
C19_Witness ==
  /\ response.kind = "upload" /\ response.error = "encode"
  /\ NoneInFlight

\* The status a response sets.
C20_StatusAfter(status) == IF ResponseOk(status) THEN "success" ELSE "error"

\* A fetch is answered in the step in which it arrives (by an input check).
C20_AnsweredAtOnce == served' # served /\ req' = req

\* C20: the files of a batch start as pending; a status only changes from
\* pending to uploading or from uploading to success or error, so success
\* and error are never left; a file becomes success only in the step in
\* which its own request is answered with a 2xx status, and when its
\* request is answered while it is uploading it becomes success if the
\* status is 2xx and error otherwise.
C20_StatusMoves ==
  [][/\ uploadStatuses = << >> =>
          \A i \in DOMAIN uploadStatuses' :
            uploadStatuses'[i].status = "pending"
     /\ uploadStatuses # << >> =>
          /\ DOMAIN uploadStatuses' = DOMAIN uploadStatuses
          /\ \A i \in DOMAIN uploadStatuses :
               LET old == uploadStatuses[i].status
                   new == uploadStatuses'[i].status
               IN /\ uploadStatuses'[i].file = uploadStatuses[i].file
                  /\ old # new =>
                       \/ old = "pending" /\ new = "uploading"
                       \/ old = "uploading" /\ new \in {"success", "error"}
                  /\ old # new /\ new = "success" =>
                       /\ Returned(i) \/ C20_AnsweredAtOnce
                       /\ ResponseOk(response'.status)
                  /\ Returned(i) /\ old = "uploading" =>
                       new = C20_StatusAfter(response'.status)
          /\ C20_AnsweredAtOnce =>
               \E i \in DOMAIN uploadStatuses :
                 /\ uploadStatuses[i].status = "uploading"
                 /\ uploadStatuses'[i].status
                      = C20_StatusAfter(response'.status)]_vars

\* In one batch, one file has the status success and the other error.
C20_Witness ==
  /\ Len(uploadStatuses) = 2
  /\ uploadStatuses[1].status = "success"
  /\ uploadStatuses[2].status = "error"

\* The fetch of item i is dispatched and has not reached `action` yet.
C21_Dispatched(i) ==
  /\ i \in DOMAIN uploadStatuses
  /\ uploadStatuses[i].status = "uploading"
  /\ req[i].kind = "none"

\* Item i has resolved as success or error.
C21_Resolved(i) == uploadStatuses[i].status \in {"success", "error"}

\* A step of C21: a request reaches `action` only for an item that is
\* dispatched, with that item's file, and no item is dispatched again once
\* its request has arrived or failed; a step that resolves one item leaves
\* every other item's status and request as they are.
C21_Step ==
  /\ served' # served =>
       \E i \in DOMAIN uploadStatuses :
         /\ C21_Dispatched(i)
         /\ uploadStatuses[i].file = selectedFiles[i]
         /\ \/ req'[i].kind = "upload" /\ req'[i].file = uploadStatuses[i].file
            \/ req' = req /\ C21_Resolved(i)'
  /\ \A i \in DOMAIN uploadStatuses :
       /\ uploadStatuses[i].status # "pending" /\ ~C21_Dispatched(i) =>
            ~C21_Dispatched(i)'
       /\ ~C21_Resolved(i) /\ C21_Resolved(i)' =>
            \A j \in DOMAIN uploadStatuses \ {i} :
              uploadStatuses'[j] = uploadStatuses[j] /\ req'[j] = req[j]

\* A state of C21: no more requests than files; once the synchronous part
\* of handleSubmit is over every dispatched request can arrive, whatever
\* the state of the others; the reload is scheduled only when every item
\* has resolved.
C21_State ==
  /\ served <= Len(uploadStatuses)
  /\ Len(uploadStatuses) \in {0, Len(selectedFiles)}
  /\ \A i \in DOMAIN uploadStatuses :
       AllStarted /\ C21_Dispatched(i) => ENABLED Fetch(i)
  /\ reload \in {"scheduled", "reloaded"} =>
       \A i \in DOMAIN uploadStatuses : C21_Resolved(i)

\* C21: one upload request per selected file, all dispatched without
\* waiting for each other; the reload is scheduled only after every item
\* has resolved as success or error; an item that fails changes nothing of
\* the others; and once a batch is submitted the page is reloaded in the
\* end.
C21_BatchReloads ==
  /\ [][C21_Step]_vars
  /\ []C21_State
  /\ (uploadStatuses # << >>) ~> (reload = "reloaded")

\* The page has reloaded after a batch whose first file failed and whose
\* second file succeeded.
C21_Witness ==
  /\ reload = "reloaded"
  /\ Len(uploadStatuses) = 2
  /\ uploadStatuses[1].status = "error"
  /\ uploadStatuses[2].status = "success"
  /\ served = 2

\* C22: the selection holds no two files with the same name.
C22_NoDuplicateNames ==
  \A i, j \in DOMAIN selectedFiles :
    i # j => selectedFiles[i].name # selectedFiles[j].name

\* C30: a status entry at a position of the selection belongs to the file
\* shown there.
C30_StatusOfShownFile ==
  \A i \in DOMAIN uploadStatuses \cap DOMAIN selectedFiles :
    uploadStatuses[i].file = selectedFiles[i]

\* The call of slot r's delete or reorder request fails in this step: the
\* object deletion, the row deletion or an update ends the request without
\* success; the column-add fails when the column is still absent after it.
C23_CallFails(r) ==
  \/ /\ req[r].kind \in {"delete", "reorder"} /\ Returned(r)
     /\ response'.error \in {"deleteObject", "deleteRow", "update"}
  \/ /\ req[r].kind = "reorder" /\ req[r].pc = "alter" /\ Moved(r)
     /\ ~hasColumn'

\* C23: when a call of a delete or a reorder request fails, the request
\* returns at once (no retry) with status 500 and the message of the error
\* the call threw.
C23_UnderlyingMessage ==
  [][\A r \in Requests :
       C23_CallFails(r) =>
         /\ Returned(r)
         /\ response'.status = 500 /\ ~response'.success
         /\ response'.message = ErrorMessage(response'.error)]_vars

\* The three tiers as the policy states them, sizes in bytes.
C24_Policy(size, W, H) ==
  IF size > 20971520 \/ W > 5000 \/ H > 5000 THEN <<1600, 70>>
  ELSE IF size > 10485760 \/ W > 4000 \/ H > 4000 THEN <<1800, 72>>
  ELSE <<1920, 75>>

\* C24: the upload that decodes a picture encodes it with the width limit
\* and the quality of its tier: (1600, 70) over 20MB or over 5000 pixels,
\* else (1800, 72) over 10MB or over 4000 pixels, else (1920, 75); a
\* picture that is at least as large in size, width and height gets no
\* greater width limit and no greater quality; 2000 x 1000 at 8MB gets
\* (1920, 75); the body that is put carries that quality.
C24_Tiers ==
  [][\A r \in Requests :
       /\ req[r].kind = "upload" /\ req[r].pc = "process"
            /\ req'[r].pc = "put" =>
            LET f == req[r].file
            IN /\ <<req'[r].maxWidth, req'[r].quality>>
                    = C24_Policy(f.size, f.width, f.height)
               /\ req'[r].width <= req'[r].maxWidth
               /\ f.width > req'[r].maxWidth =>
                    req'[r].width = req'[r].maxWidth
               /\ \A g \in PolicyFiles :
                    g.size >= f.size /\ g.width >= f.width
                      /\ g.height >= f.height =>
                      /\ Tier(g).maxWidth <= req'[r].maxWidth
                      /\ Tier(g).quality <= req'[r].quality
               /\ f.size = 8388608 /\ f.width = 2000 /\ f.height = 1000 =>
                    req'[r].maxWidth = 1920 /\ req'[r].quality = 75
       /\ req[r].kind = "upload" /\ req[r].pc = "put"
            /\ req'[r].pc = "alter" =>
            objects'[req[r].filename].quality = req[r].quality]_vars

\* The 2000 x 1000 picture of 8MB is stored as 1920 x 960 at quality 75,
\* and was inserted.
C24_Witness ==
  /\ response.kind = "upload" /\ response.success
  /\ \E f \in DOMAIN objects :
       /\ objects[f].quality = 75
       /\ objects[f].width = 1920 /\ objects[f].height = 960
       /\ objects[f].len = JpegLength(8388608)

\* The message of the 413 response.
C25_TooLarge ==
  "File is too large or complex. Please try reducing the image dimensions or use a smaller file."

\* C25: an upload request that ends in its processing step (the decode,
\* the resize or the encode threw) returns 413 with the too-large message
\* when the error's message mentions memory and otherwise 500 with the
\* error's message; that step writes no object and no row, and the request
\* wrote none before, objects being written by put steps and rows by
\* insert steps only; the other items of the batch keep their request and
\* their status, and the item itself becomes error.
C25_ProcessingFails ==
  [][\A r \in Requests :
       /\ req[r].kind = "upload" /\ Moved(r) /\ objects' # objects =>
            req[r].pc = "put"
       /\ req[r].kind = "upload" /\ Moved(r) /\ rows' # rows =>
            req[r].pc = "insert"
       /\ req'[r].pc = "put" /\ Moved(r) => req[r].pc = "process"
       /\ req[r].kind = "upload" /\ req[r].pc = "process" /\ Returned(r) =>
            /\ response'.error \in {"decode", "resize", "encode"}
            /\ ~response'.success
            /\ response'.status = (IF response'.memory THEN 413 ELSE 500)
            /\ response'.message =
                 (IF response'.memory THEN C25_TooLarge
                  ELSE ErrorMessage(response'.error))
            /\ rows' = rows /\ objects' = objects
            /\ \A q \in Requests \ {r} : req'[q] = req[q]
            /\ \A i \in DOMAIN uploadStatuses :
                 uploadStatuses'[i] =
                   IF i = r /\ uploadStatuses[i].status = "uploading"
                   THEN [uploadStatuses[i] EXCEPT !.status = "error"]
                   ELSE uploadStatuses[i]]_vars

\* The second file of a batch is stored, and then the first file's decode
\* throws: the first file has the status error, the second success, and the
\* one row and the one object are the second file's.
C25_Witness ==
  /\ response.kind = "upload" /\ response.error = "decode"
  /\ Len(uploadStatuses) = 2
  /\ uploadStatuses[1].status = "error"
  /\ uploadStatuses[2].status = "success"
  /\ Cardinality(rows) = 1
  /\ \A row \in rows :
       /\ row.filename = DerivedName(uploadStatuses[2].file.name)
       /\ DOMAIN objects = {row.filename}

\* C26: when an upload that ran on its own returns success, the row it
\* inserted is the last element of every list the Gallery Reader can then
\* return.
C26_NewRecordLast ==
  [][\A r \in Requests :
       req[r].kind = "upload" /\ Returned(r) /\ response'.success =>
         \A files \in LoaderOutputs(rows', hasColumn', FALSE) :
           /\ Len(files) > 0
           /\ files[Len(files)].id \in Ids(rows') \ Ids(rows)]_vars

\* C27: free() is never called on an image that was freed already.
C27_FreedOnce == freedTwice = {}

\* Every posted reorder request has returned (with success: no call fails).
C28_AllReturned ==
  /\ Len(posted) = MaxReorders
  /\ NoneInFlight
  /\ response.kind = "reorder" /\ response.success

\* The rank list n submitted for the record with the given id.
C28_RankIn(n, id) ==
  LET list == posted[n]
  IN list[CHOOSE j \in 1..Len(list) : list[j].id = id].order

\* C28 as stated: when the concurrent reorder requests have returned
\* success, the ranks of the records are those one of the requests
\* submitted.
C28_Original ==
  C28_AllReturned =>
    \E n \in 1..Len(posted) :
      \A row \in rows : row.display_order = C28_RankIn(n, row.id)

\* C28 as amended: when the concurrent reorder requests have returned
\* success, every record has the rank one of the requests submitted for
\* it, not the same request for every record.
C28_RankOfSomeRequest ==
  C28_AllReturned =>
    \A row \in rows :
      \E n \in 1..Len(posted) : row.display_order = C28_RankIn(n, row.id)

\* Two requests that submitted opposite orders have returned, and both
\* records have rank 2.
C28_Witness ==
  /\ C28_AllReturned
  /\ posted[1] # posted[2]
  /\ \A row \in rows : row.display_order = 2

\* C29: when a delete request for (id, filename) returns success, every
\* row other than the one with that id that was there with its object when
\* the request arrived, and is still there, still has its object.
C29_OtherObjectsKept ==
  [][\A r \in Requests :
       req[r].kind = "delete" /\ Returned(r) /\ response'.success =>
         \A row \in rows' \cap req[r].before :
           row.id # req[r].fileId /\ row.filename \in req[r].keysBefore =>
             row.filename \in DOMAIN objects']_vars

====
